---------------------------- MODULE Spec2Model ----------------------------
(***************************************************************************)
(* The ckb-bench pipeline of ckb-bench/src/bench.rs:                       *)
(*   LiveCellProducer::run    ("Discovery")  polls the nodes and forwards  *)
(*                            unseen, safely spendable cells;              *)
(*   TransactionProducer::run ("Assembly")   groups the cells by lock      *)
(*                            hash, cuts a batch once n_inout slots are    *)
(*                            active, signs and forwards the transaction.  *)
(* The two run as threads joined by one crossbeam channel of CellMeta.     *)
(***************************************************************************)
EXTENDS Integers, Sequences, FiniteSets, TLC

(***************************************************************************)
(* Bounds of the model.                                                    *)
(***************************************************************************)
NUsers == 2
NNodes == 2
NOutPoints == 3
MaxTip == 2
MaxList == 2
MaxInout == 2
MaxSends == 4

(***************************************************************************)
(* Program constants.                                                      *)
(***************************************************************************)
LruSlack == 10
Fee == 1000

Nodes == 1 .. NNodes
Variants == {"data", "type", "data1"}

None == << >>
Some(x) == << x >>
Unwrap(o) == o[1]

EmptyMap == [k \in {} |-> k]
Values(m) == {m[k] : k \in DOMAIN m}
MapInsert(m, k, v) == (k :> v) @@ m

Perms(S) == {s \in [1 .. Cardinality(S) -> S] : \A i, j \in 1 .. Cardinality(S) : s[i] = s[j] => i = j}

(***************************************************************************)
(* u64 values (Capacity::as_u64) as four 16-bit limbs, least significant   *)
(* first, so that the subtraction of the fee keeps its 64-bit width.       *)
(***************************************************************************)
Limb == 2 ^ 16
U64 == [1 .. 4 -> 0 .. Limb - 1]
FeeU64 == << Fee, 0, 0, 0 >>

RECURSIVE U64LessFrom(_, _, _)
U64LessFrom(a, b, i) ==
    IF i = 0 THEN FALSE
    ELSE IF a[i] # b[i] THEN a[i] < b[i]
    ELSE U64LessFrom(a, b, i - 1)

U64Less(a, b) == U64LessFrom(a, b, 4)

\* the borrow into limb i of a - b
RECURSIVE Borrow(_, _, _)
Borrow(a, b, i) ==
    IF i = 1 THEN 0
    ELSE IF a[i - 1] - b[i - 1] - Borrow(a, b, i - 1) < 0 THEN 1 ELSE 0

\* a - b modulo 2^64 (the release build's wrapping subtraction)
U64WrappingSub(a, b) ==
    [i \in 1 .. 4 |-> (a[i] - b[i] - Borrow(a, b, i) + Limb) % Limb]

\* the carry into limb i of a + b
RECURSIVE Carry(_, _, _)
Carry(a, b, i) ==
    IF i = 1 THEN 0
    ELSE IF a[i - 1] + b[i - 1] + Carry(a, b, i - 1) >= Limb THEN 1 ELSE 0

\* a + b = c over the naturals (no carry out of the top limb)
U64SumIs(a, b, c) ==
    /\ \A i \in 1 .. 4 : c[i] = (a[i] + b[i] + Carry(a, b, i)) % Limb
    /\ Carry(a, b, 5) = 0

VARIABLES
    ledger,            \* the chain's cells: out_point -> lock, capacity, provenance
    users,             \* the Vec<User> both producers are constructed with
    n_inout,           \* TransactionProducer.n_inout
    overflow_checks,   \* the build profile: TRUE panics on overflow, FALSE wraps
    tip,               \* each node's tip block number
    disc_pc,           \* LiveCellProducer::run: "tips", "poll", "send", "panicked"
    min_tip_number,    \* the round's min_tip_number
    disc_user,         \* position of `for user in self.users.iter()`
    disc_cells,        \* the rest of the collected `live_cells` Vec of the poll
    seen_out_points,   \* LruCache<OutPoint, Instant>, least recently used first
    live_cell_chan,    \* the channel of CellMeta between the producers
    sender_alive,      \* whether the Sender<CellMeta> still exists
    asm_pc,            \* TransactionProducer::run: "recv", "cut", "redist", "done", "panicked"
    lock_hash,         \* the `lock_hash` of the live cell received last
    live_cells,        \* #{ lock_hash => live_cell }
    backlogs,          \* #{ out_point => live_cell }
    transactions,      \* the transactions sent on transaction_sender, in order
    tx_receiver_alive, \* whether the transaction receiver still exists
    send_log,          \* history: the cells LiveCellProducer sent, in order
    recv_log,          \* history: the cells TransactionProducer received, in order
    deferred           \* history: lock_hash -> out_points received while another was active

vars == << ledger, users, n_inout, overflow_checks, tip, disc_pc, min_tip_number,
           disc_user, disc_cells, seen_out_points, live_cell_chan, sender_alive, asm_pc,
           lock_hash,
           live_cells, backlogs, transactions, tx_receiver_alive, send_log, recv_log,
           deferred >>

config_vars == << ledger, users, n_inout, overflow_checks >>
disc_vars == << disc_pc, min_tip_number, disc_user, disc_cells, seen_out_points, send_log,
               sender_alive >>
asm_vars == << asm_pc, lock_hash, live_cells, backlogs, transactions, recv_log, deferred >>

Range(s) == {s[i] : i \in 1 .. Len(s)}

(***************************************************************************)
(* Cells.  A lock hash is modelled by the script it hashes: the owning     *)
(* user and the script's hash type.                                        *)
(***************************************************************************)
LockScript(user, variant) == << user, variant >>

CellMeta(op, with_info) ==
    [ out_point |-> op,
      lock |-> ledger[op].lock,
      capacity |-> ledger[op].capacity,
      transaction_info |->
          IF with_info
          THEN Some([block_number |-> ledger[op].block_number, index |-> ledger[op].index])
          ELSE None ]

\* the ledger of the bounded runs: out_points 2k-1 and 2k share one lock
CapacityOf(op) ==
    CASE op % 3 = 1 -> << 40192, 27542, 1, 0 >>   \* 61 CKB
      [] op % 3 = 2 -> << 999, 0, 0, 0 >>         \* below the fee
      [] OTHER -> << 500, 1, 0, 0 >>              \* 66036: the fee borrows from limb 2

VariantAt(k) == CASE k % 3 = 0 -> "data" [] k % 3 = 1 -> "type" [] OTHER -> "data1"

BoundedLedger ==
    [op \in 1 .. NOutPoints |->
        [ lock |-> LockScript((((op - 1) \div 2) % NUsers) + 1, VariantAt((op - 1) \div (2 * NUsers))),
          capacity |-> CapacityOf(op),
          block_number |-> ((op - 1) % MaxTip) + 1,
          index |-> op ]]

(***************************************************************************)
(* LruCache<OutPoint, Instant> (crate lru): contains does not touch the    *)
(* order; put moves a present key to the most recent end, and evicts the   *)
(* least recent key when a new key exceeds the capacity.                   *)
(***************************************************************************)
\* a faulty variant: the capacity is the slack alone
LruCapacity_slack == LruSlack

LruCapacity == Len(users) + LruSlack

LruContains(cache, k) == k \in Range(cache)

\* a faulty variant: put stores nothing
LruPut_none(cache, k) == cache

LruPut(cache, k) ==
    LET without == SelectSeq(cache, LAMBDA x : x # k)
        put == Append(without, k)
    IN  IF Len(put) > LruCapacity THEN Tail(put) ELSE put

(***************************************************************************)
(* LiveCellProducer::run                                                   *)
(***************************************************************************)
SetMin(S) == CHOOSE x \in S : \A y \in S : x <= y

\* a faulty variant: only nodes[0] is asked for its tip
MinTipNumber_nodes0(t) == t[1]

MinTipNumber(t) == SetMin({t[n] : n \in Nodes})

\* what get_spendable_single_secp256k1_cells(&self.nodes[0]) may return for a
\* user: cells locked to that user in blocks nodes[0] has, in any order, an
\* out_point possibly repeated, the transaction_info possibly missing
ResponseCells(user) ==
    {CellMeta(op, i) : op \in {o \in DOMAIN ledger : ledger[o].lock[1] = user
                                                    /\ ledger[o].block_number <= tip[1]},
                       i \in BOOLEAN}

SeqsUpTo(S, n) == UNION {[1 .. k -> S] : k \in 0 .. n}

Responses(user) == SeqsUpTo(ResponseCells(user), MaxList)

\* a faulty variant: < for <=, a cell of the minimum tip's own block is skipped
FilterKeeps_lt(cell) ==
    /\ ~LruContains(seen_out_points, cell.out_point)
    /\ Unwrap(cell.transaction_info).block_number < min_tip_number

\* the closure of .filter(): TRUE keeps the cell
FilterKeeps(cell) ==
    /\ ~LruContains(seen_out_points, cell.out_point)
    /\ Unwrap(cell.transaction_info).block_number <= min_tip_number

\* a faulty variant: the transaction_info is demanded of cells already seen too
FilterPanics_seen(resp) ==
    \E i \in 1 .. Len(resp) : resp[i].transaction_info = None

\* .expect("live cell's transaction info should be ok") panics
FilterPanics(resp) ==
    \E i \in 1 .. Len(resp) :
        /\ ~LruContains(seen_out_points, resp[i].out_point)
        /\ resp[i].transaction_info = None

\* the end of one user's `for cell in live_cells`: the next user, or the next round
DiscAdvance ==
    IF disc_user < Len(users)
    THEN /\ disc_user' = disc_user + 1
         /\ disc_pc' = "poll"
    ELSE /\ disc_user' = 1
         /\ disc_pc' = "tips"

\* the state after LiveCellProducer::new and TransactionProducer::new
InitCommon ==
    /\ disc_pc = "tips"
    /\ min_tip_number = 0
    /\ disc_user = 1
    /\ disc_cells = << >>
    /\ seen_out_points = << >>
    /\ live_cell_chan = << >>
    /\ sender_alive = TRUE
    /\ asm_pc = "recv"
    /\ lock_hash = None
    /\ live_cells = EmptyMap
    /\ backlogs = EmptyMap
    /\ transactions = << >>
    /\ tx_receiver_alive = TRUE
    /\ send_log = << >>
    /\ recv_log = << >>
    /\ deferred = EmptyMap

Init ==
    /\ ledger = BoundedLedger
    /\ users = [i \in 1 .. NUsers |-> i]
    /\ n_inout \in 0 .. MaxInout
    /\ overflow_checks \in BOOLEAN
    /\ tip = [n \in Nodes |-> 1]
    /\ InitCommon

\* a node appends a block
NodeAdvance(n) ==
    /\ tip[n] < MaxTip
    /\ tip' = [tip EXCEPT ![n] = @ + 1]
    /\ UNCHANGED << config_vars, disc_vars, asm_vars, live_cell_chan, tx_receiver_alive >>

DiscTips ==
    /\ disc_pc = "tips"
    /\ min_tip_number' = MinTipNumber(tip)
    /\ disc_user' = 1
    /\ disc_pc' = "poll"
    /\ UNCHANGED << config_vars, tip, disc_cells, seen_out_points, send_log, sender_alive,
                    asm_vars, live_cell_chan, tx_receiver_alive >>

\* a faulty variant: each cell is put as soon as it passes the filter, so a
\* later copy of it in the same answer is judged against the grown seen-set
RECURSIVE FirstCopies(_)
FirstCopies(cells) ==
    IF cells = << >> THEN << >>
    ELSE << Head(cells) >> \o
         FirstCopies(SelectSeq(Tail(cells), LAMBDA c : c.out_point # Head(cells).out_point))

DiscPoll_progressive(resp) ==
    /\ disc_pc = "poll"
    /\ IF FilterPanics(resp)
       THEN /\ disc_pc' = "panicked"
            /\ sender_alive' = FALSE
            /\ UNCHANGED << disc_user, disc_cells >>
       ELSE LET kept == FirstCopies(SelectSeq(resp, FilterKeeps))
            IN  /\ disc_cells' = kept
                /\ UNCHANGED sender_alive
                /\ IF kept = << >>
                   THEN DiscAdvance
                   ELSE disc_pc' = "send" /\ UNCHANGED disc_user
    /\ UNCHANGED << config_vars, tip, min_tip_number, seen_out_points, send_log, asm_vars,
                    live_cell_chan, tx_receiver_alive >>

DiscPoll(resp) ==
    /\ disc_pc = "poll"
    /\ IF FilterPanics(resp)
       THEN /\ disc_pc' = "panicked"
            /\ sender_alive' = FALSE
            /\ UNCHANGED << disc_user, disc_cells >>
       ELSE LET kept == SelectSeq(resp, FilterKeeps)
            IN  /\ disc_cells' = kept
                /\ UNCHANGED sender_alive
                /\ IF kept = << >>
                   THEN DiscAdvance
                   ELSE disc_pc' = "send" /\ UNCHANGED disc_user
    /\ UNCHANGED << config_vars, tip, min_tip_number, seen_out_points, send_log, asm_vars,
                    live_cell_chan, tx_receiver_alive >>

\* whether the Receiver<CellMeta> still exists: it is dropped when run returns or unwinds
LiveCellReceiverAlive == asm_pc \notin {"done", "panicked"}

\* a faulty variant: a failed send ends the loop
DiscPutSend_stops ==
    /\ disc_pc = "send"
    /\ LET cell == Head(disc_cells)
       IN  /\ seen_out_points' = LruPut(seen_out_points, cell.out_point)
           /\ send_log' = Append(send_log, cell)
           /\ live_cell_chan' = IF LiveCellReceiverAlive
                                THEN Append(live_cell_chan, cell)
                                ELSE live_cell_chan
    /\ disc_cells' = Tail(disc_cells)
    /\ IF ~LiveCellReceiverAlive
       THEN disc_pc' = "panicked" /\ UNCHANGED disc_user
       ELSE IF Tail(disc_cells) = << >>
       THEN DiscAdvance
       ELSE UNCHANGED << disc_pc, disc_user >>
    /\ UNCHANGED << config_vars, tip, min_tip_number, sender_alive, asm_vars,
                    tx_receiver_alive >>

DiscPutSend ==
    /\ disc_pc = "send"
    /\ LET cell == Head(disc_cells)
       IN  /\ seen_out_points' = LruPut(seen_out_points, cell.out_point)
           /\ send_log' = Append(send_log, cell)
           /\ live_cell_chan' = IF LiveCellReceiverAlive
                                THEN Append(live_cell_chan, cell)
                                ELSE live_cell_chan
    /\ disc_cells' = Tail(disc_cells)
    /\ IF Tail(disc_cells) = << >>
       THEN DiscAdvance
       ELSE UNCHANGED << disc_pc, disc_user >>
    /\ UNCHANGED << config_vars, tip, min_tip_number, sender_alive, asm_vars,
                    tx_receiver_alive >>

(***************************************************************************)
(* TransactionProducer                                                     *)
(***************************************************************************)
\* TransactionProducer::new: #{ lock_hash => user }, three scripts per user
UsersMap ==
    [l \in {LockScript(u, v) : u \in Range(users), v \in Variants} |-> l[1]]

\* a faulty variant: a cell of another out_point replaces the active one
Activate_overwrite(lc, bl, live_cell) ==
    IF live_cell.lock \in DOMAIN lc /\ lc[live_cell.lock].out_point = live_cell.out_point
    THEN << lc, MapInsert(bl, live_cell.out_point, live_cell) >>
    ELSE << [lh \in DOMAIN lc \cup {live_cell.lock} |->
                IF lh = live_cell.lock THEN live_cell ELSE lc[lh]], bl >>

\* a faulty variant: a cell whose out_point equals the active one is discarded
Activate_nobacklog(lc, bl, live_cell) ==
    IF live_cell.lock \in DOMAIN lc
    THEN << lc, bl >>
    ELSE << MapInsert(lc, live_cell.lock, live_cell), bl >>

\* the match on self.live_cells.entry(lock_hash), in the receive loop and in
\* the redistribution of the backlog; yields << live_cells, backlogs >>
Activate(lc, bl, live_cell) ==
    IF live_cell.lock \in DOMAIN lc
    THEN IF lc[live_cell.lock].out_point = live_cell.out_point
         THEN << lc, MapInsert(bl, live_cell.out_point, live_cell) >>
         ELSE << lc, bl >>
    ELSE << MapInsert(lc, live_cell.lock, live_cell), bl >>

\* a faulty variant: any occupied slot cuts a batch
CutCondition_nonempty(lc) == Cardinality(DOMAIN lc) >= 1

\* a faulty variant: a batch size of 0 never cuts
CutCondition_positive(lc) == n_inout > 0 /\ Cardinality(DOMAIN lc) >= n_inout

\* a faulty variant: > for >=
CutCondition_gt(lc) == Cardinality(DOMAIN lc) > n_inout

\* self.live_cells.len() >= self.n_inout
CutCondition(lc) == Cardinality(DOMAIN lc) >= n_inout

\* the closure building one CellOutput panics: unwrap of a missing
\* transaction_info, expect of a missing user, or a checked u64 underflow
OutputPanics(cell, lh) ==
    \/ cell.transaction_info = None
    \/ lh \notin DOMAIN UsersMap
    \/ overflow_checks /\ U64Less(cell.capacity, FeeU64)

\* a faulty variant: the user is looked up by the taken cell's own lock hash
OutputUser_own(cell, lh) == UsersMap[cell.lock]

\* the user whose scripts lock the produced output
OutputUser(cell, lh) == UsersMap[lh]

\* a faulty variant: the fee is not subtracted
BuildOutput_nofee(cell, lh) ==
    LET tx_index == Unwrap(cell.transaction_info).index
        user == OutputUser(cell, lh)
    IN  [ capacity |-> cell.capacity,
          lock |-> CASE tx_index % 3 = 0 -> LockScript(user, "data")
                     [] tx_index % 3 = 1 -> LockScript(user, "type")
                     [] OTHER -> LockScript(user, "data1") ]

\* the CellOutput produced for one taken cell; lh is the `lock_hash` in scope
BuildOutput(cell, lh) ==
    LET tx_index == Unwrap(cell.transaction_info).index
        user == OutputUser(cell, lh)
    IN  [ capacity |-> U64WrappingSub(cell.capacity, FeeU64),
          lock |-> CASE tx_index % 3 = 0 -> LockScript(user, "data")
                     [] tx_index % 3 = 1 -> LockScript(user, "type")
                     [] OTHER -> LockScript(user, "data1") ]

\* the closure building one witness panics: the cell's own lock has no user
WitnessPanics(cell) == cell.lock \notin DOMAIN UsersMap

\* a faulty variant: only the first n_inout of the taken cells become inputs
RawTransaction_first(taken, lh) ==
    LET n == IF Len(taken) < n_inout THEN Len(taken) ELSE n_inout
    IN  [ inputs |-> [i \in 1 .. n |-> taken[i].out_point],
          outputs |-> [i \in 1 .. n |-> BuildOutput(taken[i], lh)] ]

\* raw_tx: the inputs and outputs built from the taken cells, in the map's
\* iteration order (outputs_data and cell_deps are the same in every batch)
RawTransaction(taken, lh) ==
    [ inputs |-> [i \in 1 .. Len(taken) |-> taken[i].out_point],
      outputs |-> [i \in 1 .. Len(taken) |-> BuildOutput(taken[i], lh)] ]

\* a faulty variant: the witness is signed by the user of the lock hash in scope
WitnessUser_outer(cell, lh) == UsersMap[lh]

\* the user signing the witness of one taken cell: the cell's own lock hash
WitnessUser(cell, lh) == UsersMap[cell.lock]

\* user.single_secp256k1_signed_witness(&raw_tx): who signed, and what
SignedWitness(user, raw_tx) == [signer |-> user, message |-> raw_tx]

\* signed_tx: raw_tx with one witness per taken cell, in the same order
BuildTransaction(taken, lh) ==
    LET raw_tx == RawTransaction(taken, lh)
    IN  [ inputs |-> raw_tx.inputs,
          outputs |-> raw_tx.outputs,
          witnesses |-> [i \in 1 .. Len(taken) |->
                            SignedWitness(WitnessUser(taken[i], lh), raw_tx)] ]

\* whether user.single_secp256k1_signed_witness(&raw_tx) yields its witnesses
\* (TRUE) or fails, which it can only do by panicking
SignOutcomes == BOOLEAN

BuildPanics(taken, lh) ==
    \E i \in 1 .. Len(taken) : OutputPanics(taken[i], lh) \/ WitnessPanics(taken[i])

\* a faulty variant: the taken backlog is thrown away
Redistribute_none(lc, bl, cells) == << lc, bl >>

\* for (_, live_cell) in backlogs.into_iter(), in the order given
RECURSIVE Redistribute(_, _, _)
Redistribute(lc, bl, cells) ==
    IF cells = << >> THEN << lc, bl >>
    ELSE LET next == Activate(lc, bl, Head(cells))
         IN  Redistribute(next[1], next[2], Tail(cells))

\* a faulty variant: the receiver takes any cell held by the channel, not the
\* oldest
AsmRecv_anyorder ==
    /\ asm_pc = "recv"
    /\ \E k \in 1 .. Len(live_cell_chan) :
          LET live_cell == live_cell_chan[k]
              next == Activate(live_cells, backlogs, live_cell)
              lh == live_cell.lock
          IN  /\ lock_hash' = lh
              /\ live_cells' = next[1]
              /\ backlogs' = next[2]
              /\ asm_pc' = IF CutCondition(next[1]) THEN "cut" ELSE "recv"
              /\ recv_log' = Append(recv_log, live_cell)
              /\ deferred' = deferred
              /\ live_cell_chan' = [i \in 1 .. Len(live_cell_chan) - 1 |->
                                       IF i < k THEN live_cell_chan[i] ELSE live_cell_chan[i + 1]]
    /\ UNCHANGED << config_vars, tip, disc_vars, transactions, tx_receiver_alive >>

\* while let Ok(live_cell) = live_cell_receiver.recv(), and the match on the entry
AsmRecv ==
    /\ asm_pc = "recv"
    /\ live_cell_chan # << >>
    /\ LET live_cell == Head(live_cell_chan)
           next == Activate(live_cells, backlogs, live_cell)
           lh == live_cell.lock
       IN  /\ lock_hash' = lh
           /\ live_cells' = next[1]
           /\ backlogs' = next[2]
           /\ asm_pc' = IF CutCondition(next[1]) THEN "cut" ELSE "recv"
           /\ recv_log' = Append(recv_log, live_cell)
           /\ deferred' =
                 IF lh \in DOMAIN live_cells /\ live_cells[lh].out_point # live_cell.out_point
                 THEN MapInsert(deferred, lh,
                          (IF lh \in DOMAIN deferred THEN deferred[lh] ELSE {})
                              \cup {live_cell.out_point})
                 ELSE deferred
    /\ live_cell_chan' = Tail(live_cell_chan)
    /\ UNCHANGED << config_vars, tip, disc_vars, transactions, tx_receiver_alive >>

\* recv() returns Err: the sender was dropped and the channel is drained
AsmClosed ==
    /\ asm_pc = "recv"
    /\ live_cell_chan = << >>
    /\ ~sender_alive
    /\ asm_pc' = "done"
    /\ UNCHANGED << config_vars, tip, disc_vars, live_cell_chan, lock_hash, live_cells,
                    backlogs, transactions, recv_log, deferred, tx_receiver_alive >>

\* a faulty variant: self.live_cells is emptied only once the batch is built
AsmCut_lateswap ==
    /\ asm_pc = "cut"
    /\ \E order \in Perms(DOMAIN live_cells), signed \in SignOutcomes :
          LET taken == [i \in 1 .. Len(order) |-> live_cells[order[i]]]
          IN  IF BuildPanics(taken, lock_hash) \/ ~signed
              THEN /\ asm_pc' = "panicked"
                   /\ UNCHANGED << transactions, live_cells >>
              ELSE IF tx_receiver_alive
              THEN /\ transactions' = Append(transactions, BuildTransaction(taken, lock_hash))
                   /\ asm_pc' = "redist"
                   /\ live_cells' = EmptyMap
              ELSE /\ asm_pc' = "done"
                   /\ live_cells' = EmptyMap
                   /\ UNCHANGED transactions
    /\ UNCHANGED << config_vars, tip, disc_vars, live_cell_chan, lock_hash, backlogs,
                    recv_log, deferred, tx_receiver_alive >>

\* the swap of self.live_cells, the building and signing, and the send
AsmCut ==
    /\ asm_pc = "cut"
    /\ \E order \in Perms(DOMAIN live_cells), signed \in SignOutcomes :
          LET taken == [i \in 1 .. Len(order) |-> live_cells[order[i]]]
          IN  IF BuildPanics(taken, lock_hash) \/ ~signed
              THEN /\ asm_pc' = "panicked"
                   /\ UNCHANGED transactions
              ELSE IF tx_receiver_alive
              THEN /\ transactions' = Append(transactions, BuildTransaction(taken, lock_hash))
                   /\ asm_pc' = "redist"
              ELSE /\ asm_pc' = "done"
                   /\ UNCHANGED transactions
    /\ live_cells' = EmptyMap
    /\ UNCHANGED << config_vars, tip, disc_vars, live_cell_chan, lock_hash, backlogs,
                    recv_log, deferred, tx_receiver_alive >>

\* the swap of self.backlogs and the re-insertion of every backlog entry
AsmRedistribute ==
    /\ asm_pc = "redist"
    /\ \E order \in Perms(DOMAIN backlogs) :
          LET cells == [i \in 1 .. Len(order) |-> backlogs[order[i]]]
              next == Redistribute(live_cells, EmptyMap, cells)
          IN  /\ live_cells' = next[1]
              /\ backlogs' = next[2]
    /\ asm_pc' = "recv"
    /\ deferred' = EmptyMap
    /\ UNCHANGED << config_vars, tip, disc_vars, live_cell_chan, lock_hash, transactions,
                    recv_log, tx_receiver_alive >>

\* the consumer of the transaction channel goes away
SinkDrop ==
    /\ tx_receiver_alive
    /\ tx_receiver_alive' = FALSE
    /\ UNCHANGED << config_vars, tip, disc_vars, asm_vars, live_cell_chan >>

Next ==
    \/ \E n \in Nodes : NodeAdvance(n)
    \/ DiscTips
    \/ \E resp \in Responses(users[disc_user]) : DiscPoll(resp)
    \/ DiscPutSend
    \/ AsmRecv
    \/ AsmClosed
    \/ AsmCut
    \/ AsmRedistribute
    \/ SinkDrop

Spec == Init /\ [][Next]_vars

(***************************************************************************)
(* LiveCellProducer::run on its own: the nodes and their answers are the   *)
(* environment, the cells sent pile up in the channel.                     *)
(***************************************************************************)
InitDiscovery ==
    /\ ledger = BoundedLedger
    /\ users = [i \in 1 .. NUsers |-> i]
    /\ n_inout = 1
    /\ overflow_checks = FALSE
    /\ tip = [n \in Nodes |-> 1]
    /\ InitCommon

NextDiscovery ==
    \/ \E n \in Nodes : NodeAdvance(n)
    \/ DiscTips
    \/ \E resp \in Responses(users[disc_user]) : DiscPoll(resp)
    \/ DiscPutSend

SpecDiscovery == InitDiscovery /\ [][NextDiscovery]_vars

(***************************************************************************)
(* LiveCellProducer::run while the Receiver<CellMeta> goes away at some    *)
(* moment (TransactionProducer::run returned).  The loop of run is one     *)
(* thread that is always scheduled again: weak fairness of its steps.      *)
(***************************************************************************)
\* the cells still in the channel are discarded with the receiver
ReceiverDrops ==
    /\ LiveCellReceiverAlive
    /\ asm_pc' = "done"
    /\ live_cell_chan' = << >>
    /\ UNCHANGED << config_vars, tip, disc_vars, lock_hash, live_cells,
                    backlogs, transactions, recv_log, deferred, tx_receiver_alive >>

DiscStep ==
    \/ DiscTips
    \/ \E resp \in Responses(users[disc_user]) : DiscPoll(resp)
    \/ DiscPutSend

NextBestEffort ==
    \/ \E n \in Nodes : NodeAdvance(n)
    \/ DiscTips
    \/ \E resp \in Responses(users[disc_user]) : DiscPoll(resp)
    \/ DiscPutSend
    \/ ReceiverDrops

SpecBestEffort == InitDiscovery /\ [][NextBestEffort]_vars /\ WF_vars(DiscStep)

(***************************************************************************)
(* TransactionProducer::run on its own: the holder of the Sender<CellMeta> *)
(* sends any sequence of cells of the ledger and may drop the sender; the  *)
(* consumer of the transactions may go away.                               *)
(***************************************************************************)
\* a cell locked by a script of none of the users given to TransactionProducer::new
StrangerCell ==
    [ out_point |-> 0,
      lock |-> LockScript(0, "type"),
      capacity |-> << 40192, 27542, 1, 0 >>,
      transaction_info |-> Some([block_number |-> 1, index |-> 0]) ]

SendableCells == {CellMeta(op, TRUE) : op \in DOMAIN ledger} \cup {StrangerCell}

SenderSends(cell) ==
    /\ sender_alive
    /\ LiveCellReceiverAlive
    /\ Len(send_log) < MaxSends
    /\ live_cell_chan' = Append(live_cell_chan, cell)
    /\ send_log' = Append(send_log, cell)
    /\ UNCHANGED << config_vars, tip, disc_pc, min_tip_number, disc_user, disc_cells,
                    seen_out_points, sender_alive, asm_vars, tx_receiver_alive >>

SenderDrops ==
    /\ sender_alive
    /\ sender_alive' = FALSE
    /\ UNCHANGED << config_vars, tip, disc_pc, min_tip_number, disc_user, disc_cells,
                    seen_out_points, send_log, live_cell_chan, asm_vars, tx_receiver_alive >>

NextAssembly ==
    \/ \E cell \in SendableCells : SenderSends(cell)
    \/ SenderDrops
    \/ AsmRecv
    \/ AsmClosed
    \/ AsmCut
    \/ AsmRedistribute
    \/ SinkDrop

SpecAssembly == Init /\ [][NextAssembly]_vars

\* the out_points consumed as inputs of the transactions sent so far
ConsumedOutPoints ==
    UNION {Range(transactions[t].inputs) : t \in 1 .. Len(transactions)}

(***************************************************************************)
(* The run in which the seen-set overflows: one user, one more cell than   *)
(* the cache holds, batches of one.  The node reports one cell per poll:   *)
(* cell 1 (never spent on the chain: the submitter is not part of the      *)
(* pipeline) or the first cell not forwarded yet.                          *)
(***************************************************************************)
EvictLedger ==
    [op \in 1 .. LruSlack + 2 |->
        [ lock |-> LockScript(1, "type"),
          capacity |-> << 40192, 27542, 1, 0 >>,
          block_number |-> 1,
          index |-> op ]]

ForwardedOutPoints == {send_log[i].out_point : i \in 1 .. Len(send_log)}

EvictResponses ==
    LET fresh == DOMAIN ledger \ ForwardedOutPoints
    IN  {<< CellMeta(op, TRUE) >> :
            op \in {1} \cup (IF fresh = {} THEN {} ELSE {SetMin(fresh)})}

InitEvict ==
    /\ ledger = EvictLedger
    /\ users = << 1 >>
    /\ n_inout = 1
    /\ overflow_checks \in BOOLEAN
    /\ tip = [n \in Nodes |-> 1]
    /\ InitCommon

NextEvict ==
    \/ DiscTips
    \/ \E resp \in EvictResponses : DiscPoll(resp)
    \/ DiscPutSend
    \/ AsmRecv
    \/ AsmCut
    \/ AsmRedistribute

SpecEvict == InitEvict /\ [][NextEvict]_vars

(***************************************************************************)
(* The run in which a cell is sent a second time after cells of its lock   *)
(* sent later: one user, batches of two, cells of two of the user's lock   *)
(* scripts (cells 1 and 2 and every even cell: via type; the others: via   *)
(* data), four more cells than the seen-set holds.  The node reports one   *)
(* cell per poll: cell 2 (not spent on the chain as long as no transaction *)
(* consumes it) or the first cell not forwarded yet.                       *)
(***************************************************************************)
FifoLedger ==
    [op \in 1 .. LruSlack + 5 |->
        [ lock |-> LockScript(1, IF op = 1 \/ op % 2 = 0 THEN "type" ELSE "data"),
          capacity |-> << 40192, 27542, 1, 0 >>,
          block_number |-> 1,
          index |-> op ]]

FifoResponses ==
    LET fresh == DOMAIN ledger \ ForwardedOutPoints
        live == IF 2 \in ConsumedOutPoints THEN {} ELSE {2}
    IN  {<< CellMeta(op, TRUE) >> :
            op \in live \cup (IF fresh = {} THEN {} ELSE {SetMin(fresh)})}

InitFifo ==
    /\ ledger = FifoLedger
    /\ users = << 1 >>
    /\ n_inout = 2
    /\ overflow_checks \in BOOLEAN
    /\ tip = [n \in Nodes |-> 1]
    /\ InitCommon

NextFifo ==
    \/ DiscTips
    \/ \E resp \in FifoResponses : DiscPoll(resp)
    \/ DiscPutSend
    \/ AsmRecv
    \/ AsmCut
    \/ AsmRedistribute

SpecFifo == InitFifo /\ [][NextFifo]_vars

(***************************************************************************)
(* The two threads together on the bounded ledger, every node at the       *)
(* highest tip: the polled node reports any list of at most two of a       *)
(* user's cells, a cell possibly twice, each with its transaction_info;    *)
(* the channel buffers without bound.                                      *)
(***************************************************************************)
InitPipe ==
    /\ ledger = BoundedLedger
    /\ users = [i \in 1 .. NUsers |-> i]
    /\ n_inout \in 0 .. MaxInout
    /\ overflow_checks = FALSE
    /\ tip = [n \in Nodes |-> MaxTip]
    /\ InitCommon

PipeResponses(user) ==
    {r \in SeqsUpTo(ResponseCells(user), 2) :
        \A i \in 1 .. Len(r) : r[i].transaction_info # None}

NextPipe ==
    \/ DiscTips
    \/ \E resp \in PipeResponses(users[disc_user]) : DiscPoll(resp)
    \/ DiscPutSend
    \/ AsmRecv
    \/ AsmCut
    \/ AsmRedistribute

SpecPipe == InitPipe /\ [][NextPipe]_vars

(***************************************************************************)
(* The end-to-end scenario: 4 accounts, batches of 2, two nodes at tip     *)
(* 100, one cell per account created in block 50; every poll of an         *)
(* account finds its cell.                                                 *)
(***************************************************************************)
E2ELedger ==
    [op \in 1 .. 4 |->
        [ lock |-> LockScript(op, VariantAt(op)),
          capacity |-> << 40192, 27542, 1, 0 >>,
          block_number |-> 50,
          index |-> op ]]

E2EResponses(user) ==
    {[i \in 1 .. 1 |-> CellMeta(op, TRUE)] : op \in {o \in DOMAIN ledger : ledger[o].lock[1] = user}}

InitE2E ==
    /\ ledger = E2ELedger
    /\ users = << 1, 2, 3, 4 >>
    /\ n_inout = 2
    /\ overflow_checks \in BOOLEAN
    /\ tip = [n \in Nodes |-> 100]
    /\ InitCommon

NextE2E ==
    \/ DiscTips
    \/ \E resp \in E2EResponses(users[disc_user]) : DiscPoll(resp)
    \/ DiscPutSend
    \/ AsmRecv
    \/ AsmCut
    \/ AsmRedistribute

SpecE2E == InitE2E /\ [][NextE2E]_vars

(***************************************************************************)
(* The height-gated scenario: one node at tip 40, another at tip 100 (any  *)
(* of them may be nodes[0]), a cell of user 1 created in block 50 and a    *)
(* cell of user 2 created in block 40.  The nodes catch up in jumps; the   *)
(* polled node reports any list of the cells it has, each with its         *)
(* transaction_info.                                                       *)
(***************************************************************************)
HGLedger ==
    [op \in 1 .. 2 |->
        [ lock |-> LockScript(op, VariantAt(op)),
          capacity |-> << 40192, 27542, 1, 0 >>,
          block_number |-> IF op = 1 THEN 50 ELSE 40,
          index |-> op ]]

HGHeights == {45, 50, 55, 100}

HGCandidate == CellMeta(1, TRUE)

HGResponses(user) ==
    {r \in Responses(user) : \A i \in 1 .. Len(r) : r[i].transaction_info # None}

InitHG ==
    /\ ledger = HGLedger
    /\ users = [i \in 1 .. NUsers |-> i]
    /\ n_inout = 1
    /\ overflow_checks = FALSE
    /\ tip \in {t \in [Nodes -> {40, 100}] : {t[n] : n \in Nodes} = {40, 100}}
    /\ InitCommon

HGNodeAdvance(n) ==
    /\ \E h \in HGHeights : /\ h > tip[n]
                            /\ tip' = [tip EXCEPT ![n] = h]
    /\ UNCHANGED << config_vars, disc_vars, asm_vars, live_cell_chan, tx_receiver_alive >>

NextHG ==
    \/ \E n \in Nodes : HGNodeAdvance(n)
    \/ DiscTips
    \/ \E resp \in HGResponses(users[disc_user]) : DiscPoll(resp)
    \/ DiscPutSend

SpecHG == InitHG /\ [][NextHG]_vars

(***************************************************************************)
(* Properties                                                              *)
(***************************************************************************)
AsmRunning == asm_pc \in {"recv", "cut", "redist"}

\* C1: with n_inout >= 1 and while the receive loop runs, every cell received
\* so far is an input of a sent transaction or is held in live_cells or in
\* backlogs.
C1_NoOutputDropped ==
    (n_inout >= 1 /\ AsmRunning) =>
        \A i \in 1 .. Len(recv_log) :
            \/ recv_log[i].out_point \in ConsumedOutPoints
            \/ recv_log[i] \in Values(live_cells)
            \/ recv_log[i] \in Values(backlogs)

\* C5: when the redistribution of a cut completes, every lock hash that
\* received a different cell while its slot was active holds one of those
\* cells in live_cells.
C5_BacklogRedistribution ==
    [][AsmRedistribute =>
          \A lh \in DOMAIN deferred :
              /\ lh \in DOMAIN live_cells'
              /\ live_cells'[lh].out_point \in deferred[lh]]_vars

\* C7: a cell received while live_cells holds a cell of the same lock hash
\* with another out_point is in backlogs, keyed by its own out_point, until
\* the backlog is redistributed.
C7_DeferredNeverDropped ==
    AsmRunning =>
        \A lh \in DOMAIN deferred : deferred[lh] \subseteq DOMAIN backlogs

\* C2: an out_point held in the seen-set has been sent on the live cell
\* channel at most once.
C2_NoDoubleEmission ==
    \A op \in Range(seen_out_points) :
        Cardinality({i \in 1 .. Len(send_log) : send_log[i].out_point = op}) <= 1

\* C3: whenever LiveCellProducer sends a cell, the cell's block number is at
\* most the tip of every node at that moment.
C3_SafetyHeight ==
    [][DiscPutSend =>
          \A n \in Nodes :
              Unwrap(Head(disc_cells).transaction_info).block_number <= tip[n]]_vars

\* C3 witness: a cell has been sent, another is about to be, and every tip
\* has moved on since the round's minimum was taken
C3_Witness ==
    /\ disc_pc = "send"
    /\ send_log # << >>
    /\ \A n \in Nodes : tip[n] > min_tip_number

TxInputsDistinct(tx) ==
    \A i, j \in 1 .. Len(tx.inputs) :
        i # j => /\ tx.inputs[i] # tx.inputs[j]
                 /\ ledger[tx.inputs[i]].lock # ledger[tx.inputs[j]].lock

\* C4 as claimed: every transaction sent has exactly n_inout inputs and
\* n_inout outputs, the inputs pairwise distinct in out_point and lock hash.
C4_BatchSize ==
    \A t \in 1 .. Len(transactions) :
        /\ Len(transactions[t].inputs) = n_inout
        /\ Len(transactions[t].outputs) = n_inout
        /\ TxInputsDistinct(transactions[t])

\* C4 amended: the same for n_inout >= 1; with n_inout = 0 every transaction
\* sent has exactly one input and one output.
C4_BatchSizeAmended ==
    \A t \in 1 .. Len(transactions) :
        LET size == IF n_inout = 0 THEN 1 ELSE n_inout
        IN  /\ Len(transactions[t].inputs) = size
            /\ Len(transactions[t].outputs) = size
            /\ TxInputsDistinct(transactions[t])

\* C4 witness: a batch of two has been sent
C4_Witness ==
    /\ n_inout = 2
    /\ \E t \in 1 .. Len(transactions) : Len(transactions[t].inputs) = 2

\* C6: no out_point is an input of two transactions sent.
C6_ConsumedOnce ==
    \A t1, t2 \in 1 .. Len(transactions) :
        t1 # t2 => Range(transactions[t1].inputs) \cap Range(transactions[t2].inputs) = {}

\* C8: in a transaction of at least two inputs, output i is locked to the
\* script of the user owning the cell of input i, the hash type chosen by
\* that cell's transaction index modulo 3 (0 data, 1 type, 2 data1).
C8_OutputLockOwner ==
    \A t \in 1 .. Len(transactions) :
        LET tx == transactions[t]
        IN  Len(tx.inputs) >= 2 =>
                \A i \in 1 .. Len(tx.inputs) :
                    tx.outputs[i].lock =
                        LockScript(ledger[tx.inputs[i]].lock[1],
                                   VariantAt(ledger[tx.inputs[i]].index))

\* C9 as claimed: the capacity of output i plus the fee 1000 is the capacity
\* of the cell of input i, as natural numbers.
C9_FeeArithmetic ==
    \A t \in 1 .. Len(transactions) :
        \A i \in 1 .. Len(transactions[t].inputs) :
            U64SumIs(transactions[t].outputs[i].capacity, FeeU64,
                     ledger[transactions[t].inputs[i]].capacity)

\* C9 amended: that holds for every consumed cell of capacity >= 1000; a cell
\* of smaller capacity is consumed only by a build without overflow checks,
\* whose output capacity is the difference modulo 2^64.
C9_FeeArithmeticAmended ==
    \A t \in 1 .. Len(transactions) :
        \A i \in 1 .. Len(transactions[t].inputs) :
            LET out == transactions[t].outputs[i].capacity
                in == ledger[transactions[t].inputs[i]].capacity
            IN  IF ~U64Less(in, FeeU64)
                THEN U64SumIs(out, FeeU64, in)
                ELSE /\ ~overflow_checks
                     /\ \A k \in 1 .. 4 : in[k] = (out[k] + FeeU64[k] + Carry(out, FeeU64, k)) % Limb
                     /\ Carry(out, FeeU64, 5) = 1

\* C9 witness: a consumed cell whose low limb is below the fee (the
\* subtraction borrows) and one below the fee altogether
C9_Witness ==
    /\ \E t \in 1 .. Len(transactions) : \E i \in 1 .. Len(transactions[t].inputs) :
          /\ ledger[transactions[t].inputs[i]].capacity[1] < Fee
          /\ ~U64Less(ledger[transactions[t].inputs[i]].capacity, FeeU64)
    /\ \E t \in 1 .. Len(transactions) : \E i \in 1 .. Len(transactions[t].inputs) :
          U64Less(ledger[transactions[t].inputs[i]].capacity, FeeU64)

\* the scenario up to the first cut: the first cell received is activated at
\* once, and the first transaction consumes exactly the first two cells received
E2EFirstBatch ==
    /\ (Len(recv_log) = 1 /\ asm_pc = "recv") =>
          /\ Values(live_cells) = {recv_log[1]}
          /\ transactions = << >>
    /\ (Len(recv_log) = 2 /\ asm_pc \in {"cut", "redist", "recv"}) =>
          /\ asm_pc = "cut" => Values(live_cells) = {recv_log[1], recv_log[2]}
          /\ asm_pc # "cut" => Len(transactions) = 1
    /\ Len(transactions) >= 1 =>
          /\ Len(transactions[1].inputs) = 2
          /\ Range(transactions[1].inputs) = {recv_log[1].out_point, recv_log[2].out_point}

\* C10 as claimed: ... and once all four cells are handled, the other two are
\* still held in live_cells, one transaction having been sent.
C10_EndToEnd ==
    /\ E2EFirstBatch
    /\ (Len(recv_log) = 4 /\ asm_pc = "recv") =>
          /\ Len(transactions) = 1
          /\ Values(live_cells) = {recv_log[3], recv_log[4]}

\* C10 amended: ... the third cell stays in live_cells only until the fourth
\* is received, which cuts a second batch of exactly the other two; after
\* that live_cells is empty.
C10_EndToEndAmended ==
    /\ E2EFirstBatch
    /\ (Len(recv_log) = 3 /\ asm_pc = "recv") =>
          /\ Values(live_cells) = {recv_log[3]}
          /\ Len(transactions) = 1
    /\ (Len(recv_log) = 4 /\ asm_pc = "recv") =>
          /\ Len(transactions) = 2
          /\ Range(transactions[2].inputs) = {recv_log[3].out_point, recv_log[4].out_point}
          /\ live_cells = EmptyMap
    /\ Len(recv_log) <= 4
    /\ Len(transactions) <= 2

\* C10 witness: all four cells were handled
C10_Witness ==
    /\ Len(recv_log) = 4
    /\ asm_pc = "recv"
    /\ {recv_log[i].lock[1] : i \in 1 .. 4} = {1, 2, 3, 4}

\* C11: in the height-gated scenario the cell of block 50 is neither sent nor
\* put into the seen-set while the round's minimum tip is below 50; in a round
\* whose minimum tip is at least 50, a poll that reports the cell, not sent
\* before, keeps it, and every kept cell is sent before the round moves on.
C11_HeightGated ==
    /\ [](min_tip_number < ledger[1].block_number =>
             /\ HGCandidate \notin Range(send_log)
             /\ HGCandidate \notin Range(live_cell_chan)
             /\ ~LruContains(seen_out_points, HGCandidate.out_point))
    /\ [][\A resp \in HGResponses(users[disc_user]) :
             (/\ DiscPoll(resp)
              /\ min_tip_number >= ledger[1].block_number
              /\ HGCandidate \in Range(resp)
              /\ HGCandidate \notin Range(send_log)) =>
                 /\ disc_pc' = "send"
                 /\ HGCandidate \in Range(disc_cells')]_vars
    /\ [](disc_pc # "send" => disc_cells = << >>)
    /\ [][DiscPutSend =>
             /\ send_log' = Append(send_log, Head(disc_cells))
             /\ live_cell_chan' = Append(live_cell_chan, Head(disc_cells))
             /\ LruContains(seen_out_points', Head(disc_cells).out_point)]_vars

\* C11 witness: the cell of block 50 was sent in a round whose minimum tip is
\* 50, after the cell of block 40 was sent in an earlier poll
C11_Witness ==
    /\ min_tip_number = ledger[1].block_number
    /\ Len(send_log) >= 2
    /\ send_log[1].out_point = 2
    /\ send_log[Len(send_log)] = HGCandidate
    /\ disc_pc \in {"poll", "tips"}

\* C12: when the cell received has a lock hash present in live_cells and the
\* out_point of the cell held there, the receive puts it into backlogs under
\* that out_point, leaves every other backlog entry alone, and leaves
\* live_cells unchanged.
C12_SameOutPointBranch ==
    [][(/\ AsmRecv
        /\ Head(live_cell_chan).lock \in DOMAIN live_cells
        /\ live_cells[Head(live_cell_chan).lock].out_point = Head(live_cell_chan).out_point) =>
           LET live_cell == Head(live_cell_chan)
           IN  /\ DOMAIN backlogs' = DOMAIN backlogs \cup {live_cell.out_point}
               /\ backlogs'[live_cell.out_point] = live_cell
               /\ \A op \in DOMAIN backlogs \ {live_cell.out_point} : backlogs'[op] = backlogs[op]
               /\ live_cells' = live_cells]_vars

\* C12 witness: a cell was received again while it was the active cell of its
\* lock hash, and waits in backlogs next to it
C12_Witness ==
    /\ asm_pc = "recv"
    /\ \E op \in DOMAIN backlogs :
          /\ backlogs[op].lock \in DOMAIN live_cells
          /\ live_cells[backlogs[op].lock] = backlogs[op]
          /\ Cardinality({i \in 1 .. Len(recv_log) : recv_log[i].out_point = op}) >= 2

\* C13: TransactionProducer::run leaves its loop only by returning, and only
\* from a receive on a closed and drained channel or from a send that fails;
\* a failed send ends it at once; once ended it receives nothing, redistributes
\* nothing and sends nothing.
C13_AssemblyTermination ==
    /\ [][(AsmRunning /\ ~AsmRunning') =>
             /\ asm_pc' = "done"
             /\ \/ asm_pc = "recv" /\ live_cell_chan = << >> /\ ~sender_alive
                \/ asm_pc = "cut" /\ ~tx_receiver_alive /\ transactions' = transactions]_vars
    /\ [][(asm_pc = "cut" /\ asm_pc' # "cut" /\ ~tx_receiver_alive) => ~AsmRunning']_vars
    /\ [][~AsmRunning => UNCHANGED << asm_vars, live_cell_chan >>]_vars

\* C14: no transaction sent has fewer than n_inout inputs; and a run that ends
\* at the closed channel ends with the channel drained, every cell sent on it
\* received, and no transaction sent for the slots left in live_cells.
C14_NoPartialBatch ==
    /\ [](\A t \in 1 .. Len(transactions) : Len(transactions[t].inputs) >= n_inout)
    /\ [][(asm_pc = "recv" /\ ~AsmRunning') =>
             /\ ~sender_alive
             /\ live_cell_chan = << >>
             /\ recv_log = send_log
             /\ transactions' = transactions
             /\ live_cells' = live_cells]_vars

\* C14 witness: the sender was dropped, the channel drained, and run returned
\* with one slot of a batch of two left over
C14_Witness ==
    /\ n_inout = 2
    /\ asm_pc = "done"
    /\ ~sender_alive
    /\ tx_receiver_alive
    /\ Cardinality(DOMAIN live_cells) = 1
    /\ Len(transactions) >= 1
    /\ recv_log = send_log

\* C15: a send on the channel whose receiver is gone delivers nothing, and
\* the same step still puts the cell's out_point into the seen-set and goes on
\* to the next cell, user or round; LiveCellProducer::run ends only in the
\* filter of a poll, never at a send; and the loop comes back to a new round
\* again and again unless that filter panics.
C15_BestEffortForwarding ==
    /\ [][(DiscPutSend /\ ~LiveCellReceiverAlive) =>
             /\ live_cell_chan' = live_cell_chan
             /\ LruContains(seen_out_points', Head(disc_cells).out_point)
             /\ disc_pc' \in {"send", "poll", "tips"}]_vars
    /\ [][(disc_pc # "panicked" /\ disc_pc' = "panicked") => disc_pc = "poll"]_vars
    /\ []<>(disc_pc = "tips" \/ disc_pc = "panicked")
    /\ [](disc_pc = "send" => <>(disc_pc # "send"))

\* C15 witness: with the receiver gone, a cell was sent in vain and put into
\* the seen-set, the tips have moved on and another poll is due
C15_Witness ==
    /\ ~LiveCellReceiverAlive
    /\ disc_pc = "poll"
    /\ Len(send_log) > Len(live_cell_chan)
    /\ \A i \in 1 .. Len(send_log) : LruContains(seen_out_points, send_log[i].out_point)
    /\ send_log[Len(send_log)] \notin Range(live_cell_chan)
    /\ Unwrap(send_log[Len(send_log)].transaction_info).block_number < min_tip_number

\* C16: a poll whose answer holds a cell that is not in the seen-set and has no
\* transaction_info can only end LiveCellProducer::run, any other poll cannot
\* end it; the poll that ends it puts nothing into the seen-set and sends
\* nothing; after the end nothing is put or sent; and every cell ever sent
\* carries the transaction_info the chain has for it.
C16_MissingProvenanceFatal ==
    /\ [](disc_pc = "poll" =>
             \A resp \in Responses(users[disc_user]) :
                 IF \E i \in 1 .. Len(resp) :
                        /\ resp[i].out_point \notin Range(seen_out_points)
                        /\ resp[i].transaction_info = None
                 THEN /\ ENABLED (DiscPoll(resp) /\ disc_pc' = "panicked")
                      /\ ~ENABLED (DiscPoll(resp) /\ disc_pc' # "panicked")
                 ELSE /\ ENABLED (DiscPoll(resp) /\ disc_pc' # "panicked")
                      /\ ~ENABLED (DiscPoll(resp) /\ disc_pc' = "panicked"))
    /\ [][(disc_pc # "panicked" /\ disc_pc' = "panicked") =>
             /\ disc_pc = "poll"
             /\ seen_out_points' = seen_out_points
             /\ send_log' = send_log
             /\ live_cell_chan' = live_cell_chan]_vars
    /\ [][disc_pc = "panicked" => UNCHANGED << disc_vars, live_cell_chan >>]_vars
    /\ [](\A i \in 1 .. Len(send_log) : send_log[i] = CellMeta(send_log[i].out_point, TRUE))

\* C16 witness: run ended in a poll, after an earlier poll had a cell sent
C16_Witness ==
    /\ disc_pc = "panicked"
    /\ send_log # << >>
    /\ Range(seen_out_points) = {send_log[i].out_point : i \in 1 .. Len(send_log)}

\* C17: a cut whose taken cells include one with a lock hash unknown to
\* self.users ends in the panic; and whenever a cut ends in the panic (unknown
\* lock hash, missing transaction_info, checked underflow, failed signing) no
\* transaction is sent by it and live_cells is already empty.
C17_WholeBatchFailure ==
    /\ [][(/\ asm_pc = "cut"
           /\ asm_pc' # "cut"
           /\ \E lh \in DOMAIN live_cells : lh \notin DOMAIN UsersMap) =>
              asm_pc' = "panicked"]_vars
    /\ [][(asm_pc # "panicked" /\ asm_pc' = "panicked") =>
             /\ asm_pc = "cut"
             /\ transactions' = transactions
             /\ live_cells' = EmptyMap
             /\ live_cells # EmptyMap]_vars

\* C17 witness: a batch of two failed on a taken cell of unknown lock hash
\* although the lock hash in scope is a user's, after another batch was sent
C17_Witness ==
    /\ asm_pc = "panicked"
    /\ n_inout = 2
    /\ Len(transactions) = 1
    /\ live_cells = EmptyMap
    /\ lock_hash \in DOMAIN UsersMap
    /\ Len(recv_log) = 4
    /\ recv_log[3] = StrangerCell

\* C18: every transaction sent has as many witnesses as inputs, and witness i
\* is signed by the user owning the cell of input i, over the raw transaction
\* (the inputs and outputs) of that very transaction.
C18_WitnessPlacement ==
    \A t \in 1 .. Len(transactions) :
        LET tx == transactions[t]
        IN  /\ Len(tx.witnesses) = Len(tx.inputs)
            /\ \A i \in 1 .. Len(tx.inputs) :
                  /\ tx.witnesses[i].signer = ledger[tx.inputs[i]].lock[1]
                  /\ tx.witnesses[i].message = [inputs |-> tx.inputs, outputs |-> tx.outputs]

\* C18 witness: two transactions of two inputs each, owned by different users
C18_Witness ==
    /\ Len(transactions) = 2
    /\ \A t \in 1 .. 2 :
          /\ Len(transactions[t].inputs) = 2
          /\ transactions[t].witnesses[1].signer # transactions[t].witnesses[2].signer
    /\ transactions[1].witnesses[1].message # transactions[2].witnesses[1].message

\* the first send of an out_point, and the first transaction consuming it
FirstSent(op) == SetMin({i \in 1 .. Len(send_log) : send_log[i].out_point = op})

FirstConsumed(op) ==
    SetMin({t \in 1 .. Len(transactions) : op \in Range(transactions[t].inputs)})

\* C19: TransactionProducer receives the cells in the order LiveCellProducer
\* sent them; and of two cells of one lock hash, both consumed, the one first
\* sent earlier is not first consumed by a later transaction than the other.
C19_PerLockFifo ==
    /\ Len(recv_log) <= Len(send_log)
    /\ \A i \in 1 .. Len(recv_log) : recv_log[i] = send_log[i]
    /\ \A o1, o2 \in ForwardedOutPoints \cap ConsumedOutPoints :
          (/\ ledger[o1].lock = ledger[o2].lock
           /\ FirstSent(o1) < FirstSent(o2)) =>
              FirstConsumed(o1) <= FirstConsumed(o2)

\* C20: the inputs of a transaction sent by a cut are exactly the out_points
\* held in live_cells when the cut began, one input each; the cut leaves
\* live_cells empty, and it stays empty until the backlog is redistributed.
C20_AtomicTake ==
    /\ [][(asm_pc = "cut" /\ Len(transactions') > Len(transactions)) =>
             LET tx == transactions'[Len(transactions')]
             IN  /\ Range(tx.inputs) = {live_cells[lh].out_point : lh \in DOMAIN live_cells}
                 /\ Len(tx.inputs) = Cardinality(DOMAIN live_cells)
                 /\ Len(transactions') = Len(transactions) + 1]_vars
    /\ [][(asm_pc = "cut" /\ asm_pc' # "cut") => live_cells' = EmptyMap]_vars
    /\ [](asm_pc = "redist" => live_cells = EmptyMap)

\* C20 witness: a batch of two was taken and sent, live_cells is empty and a
\* backlog entry waits for the redistribution
C20_Witness ==
    /\ asm_pc = "redist"
    /\ live_cells = EmptyMap
    /\ backlogs # EmptyMap
    /\ Len(transactions[Len(transactions)].inputs) = 2

\* C21: every cell held in backlogs when the redistribution of a cut runs is
\* held in live_cells or in the new backlogs when it has finished.
C21_BacklogConserved ==
    [][AsmRedistribute =>
          \A op \in DOMAIN backlogs :
              \/ backlogs[op] \in Values(live_cells')
              \/ backlogs[op] \in Values(backlogs')]_vars

\* C21 witness: after three receives and one cut, the cell that waited in
\* backlogs is back in live_cells
C21_Witness ==
    /\ asm_pc = "recv"
    /\ Len(recv_log) = 3
    /\ Len(transactions) = 1
    /\ \E lh \in DOMAIN live_cells : live_cells[lh].out_point \in ConsumedOutPoints

\* C22: a receive of a cell whose lock hash has a slot in live_cells leaves
\* live_cells as it is and cuts no batch; a slot of live_cells never changes
\* its cell, and leaves live_cells only in a cut.
C22_SlotNeverOverwritten ==
    /\ [][(AsmRecv /\ Head(live_cell_chan).lock \in DOMAIN live_cells) =>
             /\ live_cells' = live_cells
             /\ asm_pc' = "recv"]_vars
    /\ [][\A lh \in DOMAIN live_cells :
             IF lh \in DOMAIN live_cells'
             THEN live_cells'[lh] = live_cells[lh]
             ELSE asm_pc = "cut" /\ live_cells' = EmptyMap]_vars

\* C22 witness: a cell of another out_point was received for an occupied
\* slot, which still holds the cell received first
C22_Witness ==
    /\ asm_pc = "recv"
    /\ \E lh \in DOMAIN deferred :
          /\ lh \in DOMAIN live_cells
          /\ live_cells[lh].out_point \notin deferred[lh]
          /\ \E i, j \in 1 .. Len(recv_log) :
                /\ i < j
                /\ recv_log[i] = live_cells[lh]
                /\ recv_log[j].lock = lh
                /\ recv_log[j].out_point \in deferred[lh]

\* C23: the seen-set changes only in the step that sends a cell, and that step
\* leaves the cell's out_point in it; every send is such a step; the filtering
\* of an answer (cells skipped as seen or as too high) leaves the seen-set and
\* its order as they are.
C23_SeenSetUpdateRule ==
    /\ [][(seen_out_points' # seen_out_points \/ send_log' # send_log) =>
             /\ disc_pc = "send"
             /\ send_log' = Append(send_log, Head(disc_cells))
             /\ LruContains(seen_out_points', Head(disc_cells).out_point)
             /\ Range(seen_out_points') \subseteq
                   Range(seen_out_points) \cup {Head(disc_cells).out_point}]_vars
    /\ [][disc_pc = "poll" => seen_out_points' = seen_out_points]_vars
    /\ [](ForwardedOutPoints = Range(seen_out_points))

\* C23 witness: a round is over in which a cell was sent while a cell the
\* polled node has, of a block above the round's minimum tip, was not
C23_Witness ==
    /\ disc_pc = "tips"
    /\ send_log # << >>
    /\ \E op \in DOMAIN ledger :
          /\ ~LruContains(seen_out_points, op)
          /\ ledger[op].block_number > min_tip_number
          /\ ledger[op].block_number <= tip[1]

\* the latest send (and so the latest put) of an out_point
LastPut(op) ==
    CHOOSE i \in 1 .. Len(send_log) :
        /\ send_log[i].out_point = op
        /\ \A j \in 1 .. Len(send_log) : send_log[j].out_point = op => j <= i

\* C24: the seen-set never holds more than n_users + 10 out_points; a put of a
\* new out_point into a seen-set holding fewer evicts nothing; into a full one
\* it evicts exactly the out_point whose latest put is the oldest; and the
\* filtering of an answer leaves the seen-set and its order as they are.
C24_SeenSetBound ==
    /\ [](Len(seen_out_points) <= Len(users) + LruSlack)
    /\ [](Cardinality(Range(seen_out_points)) = Len(seen_out_points))
    /\ [][(DiscPutSend /\ ~LruContains(seen_out_points, Head(disc_cells).out_point)) =>
             LET new == Head(disc_cells).out_point
                 held == Range(seen_out_points)
             IN  IF Len(seen_out_points) < Len(users) + LruSlack
                 THEN Range(seen_out_points') = held \cup {new}
                 ELSE \E old \in held :
                         /\ \A k \in held : LastPut(old) <= LastPut(k)
                         /\ Range(seen_out_points') = (held \ {old}) \cup {new}]_vars
    /\ [][(disc_pc = "poll" /\ disc_pc' # "poll") =>
             seen_out_points' = seen_out_points]_vars

\* C24 witness: the full seen-set has evicted cell 1 and then, for the second
\* put of cell 1, cell 2
C24_Witness ==
    /\ Len(seen_out_points) = Len(users) + LruSlack
    /\ Len(send_log) = LruSlack + 3
    /\ LruContains(seen_out_points, 1)
    /\ ~LruContains(seen_out_points, 2)

\* C25: with n_inout >= 1, whenever TransactionProducer is about to receive,
\* live_cells holds at most n_inout - 1 cells; a step sends at most one
\* transaction, and only a cut does; and the redistribution of a cut is
\* followed by a receive, not by another cut.
C25_ActiveSize ==
    /\ []((n_inout >= 1 /\ asm_pc = "recv") =>
             Cardinality(DOMAIN live_cells) <= n_inout - 1)
    /\ [][(n_inout >= 1 /\ transactions' # transactions) =>
             /\ asm_pc = "cut"
             /\ Cardinality(DOMAIN live_cells) = n_inout
             /\ Len(transactions') = Len(transactions) + 1
             /\ SubSeq(transactions', 1, Len(transactions)) = transactions]_vars
    /\ [][(n_inout >= 1 /\ asm_pc = "redist" /\ asm_pc' # "redist") => asm_pc' = "recv"]_vars

\* C25 witness: a batch of two was cut and the redistribution left one cell,
\* one fewer than the batch size, for the next receive
C25_Witness ==
    /\ n_inout = 2
    /\ asm_pc = "recv"
    /\ Len(transactions) = 1
    /\ Len(recv_log) = 3
    /\ Cardinality(DOMAIN live_cells) = 1
    /\ backlogs = EmptyMap
    /\ live_cell_chan # << >>

\* C26: whenever TransactionProducer is about to receive, every cell in
\* backlogs has a lock hash with a slot in live_cells, and no two cells in
\* backlogs share a lock hash; the redistribution of a cut leaves backlogs
\* empty.
C26_BacklogShape ==
    /\ [](asm_pc = "recv" =>
             /\ \A op \in DOMAIN backlogs : backlogs[op].lock \in DOMAIN live_cells
             /\ \A op1, op2 \in DOMAIN backlogs :
                   backlogs[op1].lock = backlogs[op2].lock => op1 = op2)
    /\ [][(asm_pc = "redist" /\ asm_pc' # "redist") => backlogs' = EmptyMap]_vars

\* C26 witness: after a cut and its redistribution a cell was received twice
\* and its copy waits in backlogs
C26_Witness ==
    /\ asm_pc = "recv"
    /\ Len(transactions) = 1
    /\ Cardinality(DOMAIN backlogs) = 1
    /\ Len(recv_log) = 4
    /\ recv_log[3] = recv_log[4]

\* C27: the filtering of an answer changes neither the seen-set nor what was
\* sent; the cells it keeps are exactly the cells of the answer, copies
\* included, that are not in the seen-set as it is when the poll begins and
\* whose block is not above the round's minimum tip; puts and sends happen
\* only after it; and the minimum tip changes only at the start of a round.
C27_FilterThenInsert ==
    /\ [][disc_pc = "poll" =>
             /\ seen_out_points' = seen_out_points
             /\ send_log' = send_log]_vars
    /\ [](disc_pc = "poll" =>
             \A resp \in Responses(users[disc_user]) :
                 (\A i \in 1 .. Len(resp) :
                     \/ resp[i].transaction_info # None
                     \/ resp[i].out_point \in Range(seen_out_points)) =>
                    ENABLED (/\ DiscPoll(resp)
                             /\ disc_cells' =
                                   SelectSeq(resp, LAMBDA c :
                                       /\ c.out_point \notin Range(seen_out_points)
                                       /\ Unwrap(c.transaction_info).block_number
                                             <= min_tip_number)))
    /\ [][(seen_out_points' # seen_out_points \/ send_log' # send_log) =>
             disc_pc = "send"]_vars
    /\ [][min_tip_number' # min_tip_number => (disc_pc = "tips" /\ disc_pc' = "poll")]_vars
    /\ [][(disc_pc = "poll" /\ disc_pc' = "tips") => disc_user = Len(users)]_vars

\* C27 witness: two copies of one cell passed the filter of one poll, both
\* judged against the seen-set of the poll's beginning, one is already sent,
\* and the tips have moved on since the round's minimum was taken
C27_Witness ==
    /\ disc_pc = "send"
    /\ Len(disc_cells) = 1
    /\ send_log # << >>
    /\ send_log[Len(send_log)] = disc_cells[1]
    /\ LruContains(seen_out_points, disc_cells[1].out_point)
    /\ \A n \in Nodes : tip[n] > min_tip_number

\* C28: with n_inout = 0, live_cells is empty at every receive, every receive
\* puts its cell into live_cells and goes on to a cut, and transaction t has
\* exactly one input, the t-th cell received, and one output.
C28_BatchSizeZero ==
    /\ []((n_inout = 0 /\ asm_pc = "recv") => live_cells = EmptyMap)
    /\ [][(n_inout = 0 /\ AsmRecv) =>
             /\ asm_pc' = "cut"
             /\ Values(live_cells') = {Head(live_cell_chan)}]_vars
    /\ [](n_inout = 0 =>
             \A t \in 1 .. Len(transactions) :
                 /\ transactions[t].inputs = << recv_log[t].out_point >>
                 /\ Len(transactions[t].outputs) = 1)

\* C28 witness: with n_inout = 0 three receives made three transactions
C28_Witness ==
    /\ n_inout = 0
    /\ Len(transactions) = 3
    /\ Len(recv_log) = 3

\* C29: in every transaction sent, each output is locked by a script of the
\* user found under the lock hash of the cell received last before the cut,
\* and the script's hash type is chosen by the transaction index of the cell
\* of the same position (0 data, 1 type, 2 data1).
C29_LockOwnerSelection ==
    [][transactions' # transactions =>
          LET tx == transactions'[Len(transactions')]
              last == recv_log[Len(recv_log)]
          IN  \A i \in 1 .. Len(tx.inputs) :
                  tx.outputs[i].lock =
                      LockScript(last.lock[1], VariantAt(ledger[tx.inputs[i]].index))]_vars

\* C29 witness: a transaction of two inputs owned by different users, of
\* different transaction index modulo 3, whose outputs are both locked to the
\* user of the cell received last
C29_Witness ==
    /\ Len(transactions) = 1
    /\ Len(recv_log) = 2
    /\ asm_pc = "redist"
    /\ LET tx == transactions[1]
       IN  /\ Len(tx.inputs) = 2
           /\ ledger[tx.inputs[1]].lock[1] # ledger[tx.inputs[2]].lock[1]
           /\ tx.outputs[1].lock[1] = recv_log[2].lock[1]
           /\ tx.outputs[2].lock[1] = recv_log[2].lock[1]
           /\ tx.outputs[1].lock[2] # tx.outputs[2].lock[2]

\* the cells of a map, in the order of their keys (out_points)
RECURSIVE CellsByOutPoint(_)
CellsByOutPoint(bl) ==
    IF DOMAIN bl = {} THEN << >>
    ELSE LET op == SetMin(DOMAIN bl)
         IN  << bl[op] >> \o CellsByOutPoint([k \in DOMAIN bl \ {op} |-> bl[k]])

\* TransactionProducer::run replayed on a sequence of cells, no build and no
\* send failing: the batches cut (each the set of its inputs' out_points) and
\* the maps left
RECURSIVE Replay(_, _)
Replay(cells, st) ==
    IF cells = << >> THEN st
    ELSE LET next == Activate(st.live_cells, st.backlogs, Head(cells))
         IN  IF CutCondition(next[1])
             THEN LET again == Redistribute(EmptyMap, EmptyMap, CellsByOutPoint(next[2]))
                  IN  Replay(Tail(cells),
                             [ batches |-> Append(st.batches,
                                                  {c.out_point : c \in Values(next[1])}),
                               live_cells |-> again[1],
                               backlogs |-> again[2] ])
             ELSE Replay(Tail(cells),
                         [ batches |-> st.batches, live_cells |-> next[1], backlogs |-> next[2] ])

\* C30: whenever TransactionProducer is about to receive, the batches it has
\* sent (as sets of out_points), live_cells and backlogs are those of the
\* replay of the cells LiveCellProducer sent first, as many as were received:
\* they depend on the sequence sent alone, not on the interleaving of the two
\* threads, on what the channel holds, or on the iteration order of the maps.
C30_InterleavingIndependence ==
    asm_pc = "recv" =>
        LET sent == SubSeq(send_log, 1, Len(recv_log))
            replay == Replay(sent, [batches |-> << >>, live_cells |-> EmptyMap,
                                    backlogs |-> EmptyMap])
        IN  /\ Len(recv_log) <= Len(send_log)
            /\ [t \in 1 .. Len(transactions) |-> Range(transactions[t].inputs)] = replay.batches
            /\ live_cells = replay.live_cells
            /\ backlogs = replay.backlogs

\* C30 witness: a batch was cut and the copy of one of its cells put back
\* into live_cells while two more cells sent wait in the channel
C30_Witness ==
    /\ asm_pc = "recv"
    /\ Len(transactions) = 1
    /\ live_cells # EmptyMap
    /\ \A c \in Values(live_cells) : c.out_point \in ConsumedOutPoints
    /\ Len(live_cell_chan) >= 2
    /\ Len(send_log) = Len(recv_log) + Len(live_cell_chan)

============================================================================
